---------------------------- MODULE Spec2Model ----------------------------
(***************************************************************************)
(* A model of gchemol-lattice: the Lattice value (matrix, origin,          *)
(* inv_matrix), its constructors and mutators (src/src/lib.rs), the        *)
(* minimum-image engine (src/src/mic.rs, src/src/lib.rs) and the helpers   *)
(* of src/src/utils.rs.                                                    *)
(*                                                                         *)
(* Arithmetic.  The program computes in f64; the model computes the same   *)
(* expressions exactly, over the rationals:                                *)
(*   - a Vector3f is a record [num |-> <<x, y, z>>, den |-> d], d > 0,     *)
(*     standing for (x/d, y/d, z/d);                                       *)
(*   - a Matrix3f is the tuple <<a, b, c>> of its three columns;           *)
(*   - inv_matrix is a record [num |-> matrix, den |-> d];                 *)
(*   - a norm (a square root) is carried by its square, a rational         *)
(*     [n |-> , d |-> ]; norms are only ever compared, and x |-> x^2 is    *)
(*     monotone on the non-negative reals;                                 *)
(*   - a width volume / (|u| * |v|) is the record                          *)
(*     [vol |-> volume, sq |-> |u|^2 * |v|^2].                             *)
(* A scale factor keeps the sign bit of the f64 apart from its magnitude   *)
(* ([neg |-> , mag |-> ]) because f64::is_sign_positive reads the sign     *)
(* bit: 0.0 and -0.0 differ.                                               *)
(* A panic (assert!, expect) ends the call where it is raised; the fields  *)
(* of the Lattice keep the values they had at that point.                  *)
(***************************************************************************)
EXTENDS Integers, Sequences, FiniteSets, TLC

VARIABLES
    lattice,   \* <<>> while no Lattice value exists, else <<the Lattice>>
    status,    \* "start", "live" (the last call returned), "panicked"
    nscale,    \* number of scaling calls made so far
    op,        \* name of the last call
    arg,       \* its arguments
    ret        \* its return value (<<>> for a call that returns nothing)

vars == <<lattice, status, nscale, op, arg, ret>>

---------------------------------------------------------------------------
\* Bounds of the model.

\* Largest number of scaling calls in one run.
MaxScales == 2

\* Largest absolute coordinate of a query point or displacement.
MaxCoord == 1

\* Half-extent of the box of lattice translations a result is compared with.
MaxImage == 2

---------------------------------------------------------------------------
\* Vectors, matrices, rationals.

Abs(x) == IF x < 0 THEN -x ELSE x

Dot(u, v) == u[1] * v[1] + u[2] * v[2] + u[3] * v[3]

Cross(u, v) ==
    << u[2] * v[3] - u[3] * v[2],
       u[3] * v[1] - u[1] * v[3],
       u[1] * v[2] - u[2] * v[1] >>

VPlus(u, v) == << u[1] + v[1], u[2] + v[2], u[3] + v[3] >>

VMinus(u, v) == << u[1] - v[1], u[2] - v[2], u[3] - v[3] >>

VTimes(k, u) == << k * u[1], k * u[2], k * u[3] >>

\* Matrix (columns a, b, c) times vector.
MTimes(m, f) ==
    << m[1][1] * f[1] + m[2][1] * f[2] + m[3][1] * f[3],
       m[1][2] * f[1] + m[2][2] * f[2] + m[3][2] * f[3],
       m[1][3] * f[1] + m[2][3] * f[2] + m[3][3] * f[3] >>

\* Matrix times matrix, column by column.
MMTimes(m, n) == << MTimes(m, n[1]), MTimes(m, n[2]), MTimes(m, n[3]) >>

Zeros == << 0, 0, 0 >>

Identity == << <<1, 0, 0>>, <<0, 1, 0>>, <<0, 0, 1>> >>

\* The rows of the adjugate are the cross products of the columns:
\* Adj(m) * m = Det(m) * Identity. Returned as columns.
Adj(m) ==
    LET r1 == Cross(m[2], m[3])
        r2 == Cross(m[3], m[1])
        r3 == Cross(m[1], m[2])
    IN  << <<r1[1], r2[1], r3[1]>>,
           <<r1[2], r2[2], r3[2]>>,
           <<r1[3], r2[3], r3[3]>> >>

\* A Vector3f with integer components.
V(x) == [num |-> x, den |-> 1]

\* The rational vector num/den, written with denominator 1 when it is integral.
Reduce(num, den) ==
    IF num[1] % den = 0 /\ num[2] % den = 0 /\ num[3] % den = 0
    THEN [num |-> << num[1] \div den, num[2] \div den, num[3] \div den >>, den |-> 1]
    ELSE [num |-> num, den |-> den]

\* Equality, sum and difference of two Vector3f.
VEq(u, v) == VTimes(v.den, u.num) = VTimes(u.den, v.num)

VAdd(u, v) ==
    IF u.den = v.den
    THEN [num |-> VPlus(u.num, v.num), den |-> u.den]
    ELSE Reduce(VPlus(VTimes(v.den, u.num), VTimes(u.den, v.num)), u.den * v.den)

VSub(u, v) == VAdd(u, [num |-> VTimes(-1, v.num), den |-> v.den])

\* Order on rationals [n, d] with d > 0.
QLt(p, q) == p.n * q.d < q.n * p.d

QLe(p, q) == p.n * q.d <= q.n * p.d

QEq(p, q) == p.n * q.d = q.n * p.d

\* Truncation toward zero in place of floor.
FloorAsTrunc(n, d) == IF n >= 0 THEN n \div d ELSE -((-n) \div d)

\* f64::floor and f64::round (half away from zero) of n/d, d > 0.
Floor(n, d) == n \div d

\* Rounding half up, floor(x + 1/2), in place of half away from zero.
RoundHalfUp(n, d) == (2 * n + d) \div (2 * d)

Round(n, d) ==
    IF n >= 0 THEN (2 * n + d) \div (2 * d)
    ELSE -((2 * (-n) + d) \div (2 * d))

\* Vector3::norm, carried by its square.
norm(v) == [n |-> Dot(v.num, v.num), d |-> v.den * v.den]


---------------------------------------------------------------------------
\* src/src/utils.rs

\* The outcome of a call that panics where a value was expected.
Panic == [panic |-> TRUE]

\* va . (vb x vc), signed.
get_cell_volume(mat) == Dot(mat[1], Cross(mat[2], mat[3]))

\* An inversion that never fails: the cofactor matrix over a divisor of 1
\* where the determinant is zero.
get_inv_matrix_unchecked(matrix) ==
    LET det == get_cell_volume(matrix)
    IN  IF det >= 0 THEN [num |-> Adj(matrix), den |-> IF det = 0 THEN 1 ELSE det]
        ELSE [num |-> << VTimes(-1, Adj(matrix)[1]),
                         VTimes(-1, Adj(matrix)[2]),
                         VTimes(-1, Adj(matrix)[3]) >>,
              den |-> -det]

\* Matrix3::try_inverse is None exactly when the determinant is zero, and
\* expect("bad matrix") panics then. The inverse is adjugate / determinant,
\* written with a positive denominator.
get_inv_matrix(matrix) ==
    LET det == get_cell_volume(matrix)
    IN  IF det = 0 THEN Panic
        ELSE IF det > 0 THEN [num |-> Adj(matrix), den |-> det]
        ELSE [num |-> << VTimes(-1, Adj(matrix)[1]),
                         VTimes(-1, Adj(matrix)[2]),
                         VTimes(-1, Adj(matrix)[3]) >>,
              den |-> -det]

\* The squares of the three column norms.
get_cell_lengths(mat) ==
    << Dot(mat[1], mat[1]), Dot(mat[2], mat[2]), Dot(mat[3], mat[3]) >>

\* Vector::angle(u, v) is acos(u.v / (|u||v|)); acos is injective on [-1, 1],
\* so the angle is carried by the signed square of its cosine,
\* sign(u.v) * (u.v)^2 / (|u|^2 |v|^2).
Angle(u, v) ==
    LET uv == Dot(u, v)
    IN  [n |-> IF uv < 0 THEN -(uv * uv) ELSE uv * uv,
         d |-> Dot(u, u) * Dot(v, v)]

get_cell_angles(mat) ==
    << Angle(mat[2], mat[3]), Angle(mat[1], mat[3]), Angle(mat[1], mat[2]) >>

---------------------------------------------------------------------------
\* src/src/lib.rs: constructors and accessors. Each takes the Lattice (a
\* record with the three fields of the struct) and returns what the method
\* returns.

\* impl Default for Lattice
Default ==
    [matrix |-> Identity, origin |-> Zeros, inv_matrix |-> get_inv_matrix(Identity)]

\* Lattice::from_matrix: the panic of get_inv_matrix leaves no value.
from_matrix(tvs) ==
    IF get_inv_matrix(tvs) = Panic THEN Panic
    ELSE [matrix |-> tvs, origin |-> Default.origin, inv_matrix |-> get_inv_matrix(tvs)]

\* Lattice::new: the three vectors become the columns of the matrix.
new(tvs) == from_matrix(<< tvs[1], tvs[2], tvs[3] >>)

volume(self) == get_cell_volume(self.matrix)

lengths(self) == get_cell_lengths(self.matrix)

angles(self) == get_cell_angles(self.matrix)

\* The widths with one length left out of each divisor.
widthsOneLength(self) ==
    LET l == get_cell_lengths(self.matrix)
    IN  << [vol |-> get_cell_volume(self.matrix), sq |-> l[2]],
           [vol |-> get_cell_volume(self.matrix), sq |-> l[3]],
           [vol |-> get_cell_volume(self.matrix), sq |-> l[1]] >>

\* volume / (|b||c|), volume / (|c||a|), volume / (|a||b|)
widths(self) ==
    LET l == lengths(self)
    IN  << [vol |-> volume(self), sq |-> l[2] * l[3]],
           [vol |-> volume(self), sq |-> l[3] * l[1]],
           [vol |-> volume(self), sq |-> l[1] * l[2]] >>

set_origin(self, loc) == [self EXCEPT !.origin = loc]

\* inv_matrix * (p - origin)
to_frac(self, p) ==
    [num |-> MTimes(self.inv_matrix.num, VMinus(p.num, VTimes(p.den, self.origin))),
     den |-> self.inv_matrix.den * p.den]

\* matrix * p + origin
to_cart(self, p) ==
    Reduce(VPlus(MTimes(self.matrix, p.num), VTimes(p.den, self.origin)), p.den)

\* The matrix equals the diagonal matrix of its own diagonal.
is_orthorhombic(self) ==
    LET m == self.matrix
    IN  << <<m[1][1], 0, 0>>, <<0, m[2][2], 0>>, <<0, 0, m[3][3]>> >> = m

\* f - floor(f), per component
wrap_frac(self, f) ==
    [num |-> << f.num[1] - Floor(f.num[1], f.den) * f.den,
                f.num[2] - Floor(f.num[2], f.den) * f.den,
                f.num[3] - Floor(f.num[3], f.den) * f.den >>,
     den |-> f.den]

wrap(self, vec) == to_cart(self, wrap_frac(self, to_frac(self, vec)))

---------------------------------------------------------------------------
\* src/src/lib.rs: scaling.

\* A scale factor: sign bit and magnitude of the f64.
Factor(neg, mag) == [neg |-> neg, mag |-> mag]

\* f64::is_sign_positive: the sign bit is clear (true of 0.0, false of -0.0).
is_sign_positive(v) == ~v.neg

\* The value of a factor whose sign bit is clear.
Value(v) == IF v.neg THEN -v.mag ELSE v.mag

\* What a mutating call leaves: the Lattice, and whether the call panicked.
Left(self, panicked) == [lattice |-> self, panicked |-> panicked]

\* The tail shared by scale_by and scale_by_abc: the matrix is already
\* scaled when get_inv_matrix is called, and its panic leaves inv_matrix as
\* it was.
Reinvert(self, matrix) ==
    IF get_inv_matrix(matrix) = Panic
    THEN Left([self EXCEPT !.matrix = matrix], TRUE)
    ELSE Left([self EXCEPT !.matrix = matrix,
                           !.inv_matrix = get_inv_matrix(matrix)], FALSE)

\* A scale_by that scales the columns a and b and leaves c.
scale_by_two_columns(self, v) ==
    IF ~is_sign_positive(v) THEN Left(self, TRUE)
    ELSE Reinvert(self, << VTimes(Value(v), self.matrix[1]),
                           VTimes(Value(v), self.matrix[2]),
                           self.matrix[3] >>)

\* assert!(v.is_sign_positive()); self.matrix *= v; self.inv_matrix = ...
scale_by(self, v) ==
    IF ~is_sign_positive(v) THEN Left(self, TRUE)
    ELSE Reinvert(self, << VTimes(Value(v), self.matrix[1]),
                           VTimes(Value(v), self.matrix[2]),
                           VTimes(Value(v), self.matrix[3]) >>)

\* assert!(v.is_sign_positive()); column i *= v; self.inv_matrix = ...
\* (i is 0, 1, 2 in the source and 1, 2, 3 here.)
scale_by_abc(self, v, i) ==
    IF ~is_sign_positive(v) THEN Left(self, TRUE)
    ELSE Reinvert(self, [self.matrix EXCEPT ![i] = VTimes(Value(v), self.matrix[i])])

scale_by_a(self, v) == scale_by_abc(self, v, 1)

scale_by_b(self, v) == scale_by_abc(self, v, 2)

scale_by_c(self, v) == scale_by_abc(self, v, 3)

---------------------------------------------------------------------------
\* src/src/mic.rs and Lattice::apply_mic, Lattice::distance of src/src/lib.rs.

\* image[i] = -round(fcoords[i]); fcoords[i] += image[i]; back to cartesian.
apply_mic_tuckerman(self, p) ==
    LET f == to_frac(self, p)
        image == << -Round(f.num[1], f.den), -Round(f.num[2], f.den),
                    -Round(f.num[3], f.den) >>
        fcoords == [num |-> VPlus(f.num, VTimes(f.den, image)), den |-> f.den]
    IN  to_cart(self, fcoords)

\* The least n >= from with n^2 * q >= p (q > 0).
RECURSIVE LeastSquareAbove(_, _, _)
LeastSquareAbove(from, p, q) ==
    IF from * from * q >= p THEN from ELSE LeastSquareAbove(from + 1, p, q)

\* The quotient rounded down in place of up: (radius / w).floor() as usize.
FloorAsUsize(r, w) ==
    IF w.vol > 0
    THEN LeastSquareAbove(0, r.n * w.sq + 1, r.d * w.vol * w.vol) - 1
    ELSE 0

\* (radius / w).ceil() as usize, for a radius r (by its square) and a
\* width w = vol / sqrt(sq). The cast of a float to usize saturates: a
\* negative quotient gives 0. (w is never 0 where a Lattice is queried.)
CeilAsUsize(r, w) ==
    IF w.vol > 0
    THEN LeastSquareAbove(0, r.n * w.sq, r.d * w.vol * w.vol)
    ELSE 0

n_min_images(self, radius) ==
    << CeilAsUsize(radius, widths(self)[1]),
       CeilAsUsize(radius, widths(self)[2]),
       CeilAsUsize(radius, widths(self)[3]) >>

\* The triples of (-na..na) x (-nb..nb) x (-nc..nc), a slowest, c fastest.
relevant_images(self, radius) ==
    LET ns == n_min_images(self, radius)
        wb == 2 * ns[2] + 1
        wc == 2 * ns[3] + 1
    IN  [ x \in 1 .. (2 * ns[1] + 1) * wb * wc |->
            << ((x - 1) \div (wb * wc)) - ns[1],
               (((x - 1) \div wc) % wb) - ns[2],
               ((x - 1) % wc) - ns[3] >> ]

\* The loop of apply_mic_brute_force keeps the first image whose vector is
\* strictly shorter than every one before it (the initial target is
\* f64::MAX, so the first image always replaces it): when the loop ends the
\* target is the first vector of minimum norm. The cutoff is the norm of the
\* Tuckerman vector, and the images are added to that vector.
apply_mic_brute_force(self, p) ==
    LET pt == apply_mic_tuckerman(self, p)
        cutoff == norm(pt)
        images == relevant_images(self, cutoff)
        v == [ x \in 1 .. Len(images) |-> VAdd(pt, to_cart(self, V(images[x]))) ]
        d == [ x \in 1 .. Len(images) |-> norm(v[x]) ]
        target == CHOOSE x \in 1 .. Len(images) :
                      \A y \in 1 .. Len(images) :
                          IF y < x THEN QLt(d[x], d[y]) ELSE QLe(d[x], d[y])
    IN  v[target]

\* v_naive.norm() < 0.5 * widths.min(): below half of every width.
BelowHalfMin(n, ws) ==
    \A i \in 1 .. 3 : ws[i].vol > 0 /\ 4 * n.n * ws[i].sq < ws[i].vol * ws[i].vol * n.d

apply_mic(self, p) ==
    LET v_naive == apply_mic_tuckerman(self, p)
    IN  IF is_orthorhombic(self) THEN v_naive
        ELSE IF BelowHalfMin(norm(v_naive), widths(self)) THEN v_naive
        ELSE apply_mic_brute_force(self, p)

\* |apply_mic(pj - pi)|
distance(self, pi, pj) == norm(apply_mic(self, VSub(pj, pi)))

---------------------------------------------------------------------------
\* src/src/supercell.rs. An iterator of isize is the sequence of what it
\* yields; a slice of points is a sequence.

\* Iterator::flat_map, given the sequences the closure yields for the items:
\* those sequences one after another.
flat_map(yielded) ==
    LET upto[n \in 0 .. Len(yielded)] ==
            IF n = 0 THEN << >> ELSE upto[n - 1] \o yielded[n]
    IN  upto[Len(yielded)]

\* An iproduct whose first iterator is the fastest.
iproduct_first_fastest(ra, rb, rc) ==
    LET row(k, j) == [ x \in 1 .. Len(ra) |-> << ra[x], j, k >> ]
        plane(k) == flat_map([ y \in 1 .. Len(rb) |-> row(k, rb[y]) ])
    IN  flat_map([ z \in 1 .. Len(rc) |-> plane(rc[z]) ])

\* iproduct!(ra, rb, rc): the last iterator is the fastest.
iproduct(ra, rb, rc) ==
    LET row(i, j) == [ z \in 1 .. Len(rc) |-> << i, j, rc[z] >> ]
        plane(i) == flat_map([ y \in 1 .. Len(rb) |-> row(i, rb[y]) ])
    IN  flat_map([ x \in 1 .. Len(ra) |-> plane(ra[x]) ])

\* For every (i, j, k) of the product: tv = to_cart([i, j, k]), and then
\* tv + p for every p of points.
replicate(self, points, ra, rb, rc) ==
    LET images == iproduct(ra, rb, rc)
        translated(image) ==
            LET tv == to_cart(self, V(image))
            IN  [ x \in 1 .. Len(points) |-> VAdd(tv, V(points[x])) ]
    IN  flat_map([ n \in 1 .. Len(images) |-> translated(images[n]) ])

---------------------------------------------------------------------------
\* The inputs the calls are made with.

\* An orthorhombic cell.
Orthorhombic == << <<2, 0, 0>>, <<0, 4, 0>>, <<0, 0, 2>> >>

\* The cell of test_mic_distance_2 with 3 in place of 5: triclinic, right-handed.
Triclinic == << <<3, 0, 0>>, <<1, 3, 0>>, <<1, 1, 3>> >>

\* The same vectors with a and b exchanged: left-handed, a . (b x c) < 0.
LeftHanded == << <<1, 3, 0>>, <<3, 0, 0>>, <<1, 1, 3>> >>

\* Linearly dependent vectors.
Coplanar == << <<1, 0, 0>>, <<2, 0, 0>>, <<0, 0, 1>> >>

Bases == { Orthorhombic, Triclinic, LeftHanded, Coplanar }

Origins == { Zeros, <<2, -1, 0>> }

\* 2.0, 0.0, -1.0 and -0.0
Factors == { Factor(FALSE, 2), Factor(FALSE, 0), Factor(TRUE, 1), Factor(TRUE, 0) }

Coords == -MaxCoord .. MaxCoord

Points == { << x, y, z >> : x \in Coords, y \in Coords, z \in Coords }

\* The first point of a distance query.
Anchors == { Zeros, <<1, -2, 1>> }

\* The index ranges of a replicate: 0..=0, -1..=1 and 0..=1.
Ranges == { << 0 >>, << -1, 0, 1 >>, << 0, 1 >> }

\* The points of a replicate: the one point of test_supercell, and two points.
PointLists == { << Zeros >>, << <<1, -2, 1>>, Zeros >> }

\* The lattice translations a result is compared with.
Images ==
    { << i, j, k >> : i \in -MaxImage .. MaxImage, j \in -MaxImage .. MaxImage,
                      k \in -MaxImage .. MaxImage }

---------------------------------------------------------------------------
\* The state machine: one action per call.

self == lattice[1]

Queries == { "apply_mic", "distance", "wrap", "replicate", "widths" }

Init ==
    /\ lattice = <<>>
    /\ status = "start"
    /\ nscale = 0
    /\ op = "none"
    /\ arg = <<>>
    /\ ret = <<>>

\* A constructor returns a Lattice or panics.
Construct(name, input, made) ==
    /\ status = "start"
    /\ lattice' = IF made = Panic THEN <<>> ELSE << made >>
    /\ status' = IF made = Panic THEN "panicked" ELSE "live"
    /\ op' = name
    /\ arg' = input
    /\ ret' = <<>>
    /\ UNCHANGED nscale

CallDefault == Construct("default", <<>>, Default)

CallNew == \E tvs \in Bases : Construct("new", tvs, new(tvs))

CallFromMatrix == \E tvs \in Bases : Construct("from_matrix", tvs, from_matrix(tvs))

CallSetOrigin ==
    \E loc \in Origins :
        /\ status = "live"
        /\ lattice' = << set_origin(self, loc) >>
        /\ op' = "set_origin"
        /\ arg' = loc
        /\ ret' = <<>>
        /\ UNCHANGED << status, nscale >>

\* A scaling call leaves the Lattice as the call left it, panic or not.
Scale(name, v, left) ==
    /\ status = "live"
    /\ nscale < MaxScales
    /\ lattice' = << left.lattice >>
    /\ status' = IF left.panicked THEN "panicked" ELSE "live"
    /\ nscale' = nscale + 1
    /\ op' = name
    /\ arg' = v
    /\ ret' = <<>>

CallScaleBy == \E v \in Factors : Scale("scale_by", v, scale_by(self, v))

CallScaleByA == \E v \in Factors : Scale("scale_by_a", v, scale_by_a(self, v))

CallScaleByB == \E v \in Factors : Scale("scale_by_b", v, scale_by_b(self, v))

CallScaleByC == \E v \in Factors : Scale("scale_by_c", v, scale_by_c(self, v))

\* A query leaves the Lattice alone, so a second query in a row reaches no
\* Lattice the first did not: queries follow a constructor or a mutator.
Query(name, input, output) ==
    /\ status = "live"
    /\ op \notin Queries
    /\ op' = name
    /\ arg' = input
    /\ ret' = output
    /\ UNCHANGED << lattice, status, nscale >>

CallApplyMic == \E p \in Points : Query("apply_mic", p, apply_mic(self, V(p)))

CallDistance ==
    \E pi \in Anchors, pj \in Points :
        Query("distance", << pi, pj >>, distance(self, V(pi), V(pj)))

CallWrap == \E p \in Points : Query("wrap", p, wrap(self, V(p)))

CallReplicate ==
    \E points \in PointLists, ra \in Ranges, rb \in Ranges, rc \in Ranges :
        Query("replicate", << points, ra, rb, rc >>,
              replicate(self, points, ra, rb, rc))

CallWidths == Query("widths", << >>, widths(self))

Next ==
    \/ CallDefault
    \/ CallNew
    \/ CallFromMatrix
    \/ CallSetOrigin
    \/ CallScaleBy
    \/ CallScaleByA
    \/ CallScaleByB
    \/ CallScaleByC
    \/ CallApplyMic
    \/ CallDistance
    \/ CallWrap
    \/ CallReplicate
    \/ CallWidths

Spec == Init /\ [][Next]_vars

---------------------------------------------------------------------------
\* What the claims speak of.

\* t is an integer combination na*a + nb*b + nc*c of the lattice vectors:
\* Adj(matrix) * t is a multiple of the determinant.
IsLatticeVector(m, t) ==
    /\ t.den = 1
    /\ LET k == MTimes(Adj(m), t.num)
       IN  \A i \in 1 .. 3 : k[i] % Abs(get_cell_volume(m)) = 0

\* d + na*a + nb*b + nc*c
Translate(m, d, n) == [num |-> VPlus(d, MTimes(m, n)), den |-> 1]

\* No translate of d by an image of the box is shorter than the norm r.
IsMinimumNorm(m, r, d) == \A n \in Images : QLe(r, norm(Translate(m, d, n)))

\* The displacement of a distance query.
Displacement == VMinus(arg[2], arg[1])

RightHanded == get_cell_volume(self.matrix) > 0

\* C1: apply_mic(d) differs from d by a lattice vector and no translate of d
\* is shorter; distance(pi, pj) is that minimum norm for d = pj - pi.
\* (Stated of every Lattice, any handedness, any origin.)
C1_ApplyMicIsShortestImage ==
    /\ (status = "live" /\ op = "apply_mic") =>
          /\ IsLatticeVector(self.matrix, VSub(ret, V(arg)))
          /\ IsMinimumNorm(self.matrix, norm(ret), arg)
    /\ (status = "live" /\ op = "distance") =>
          /\ IsLatticeVector(self.matrix,
                 VSub(apply_mic(self, V(Displacement)), V(Displacement)))
          /\ QEq(ret, norm(apply_mic(self, V(Displacement))))
          /\ IsMinimumNorm(self.matrix, ret, Displacement)

\* C2: distance(pi, pj) = distance(pj, pi), for every Lattice and origin.
C2_DistanceSymmetric ==
    (status = "live" /\ op = "distance") =>
        QEq(ret, distance(self, V(arg[2]), V(arg[1])))

\* C5: distance(p, p) = 0 and apply_mic((0, 0, 0)) is the zero vector, for
\* every Lattice and origin.
C5_ZeroDisplacement ==
    /\ (status = "live" /\ op = "distance" /\ arg[1] = arg[2]) => ret.n = 0
    /\ (status = "live" /\ op = "apply_mic" /\ arg = Zeros) => VEq(ret, V(Zeros))

\* The fractional coordinates the fast path rounds, and its result.
FracOfArg == to_frac(self, V(arg))

FastPath == apply_mic_tuckerman(self, V(arg))

OrthorhombicQuery == status = "live" /\ op = "apply_mic" /\ is_orthorhombic(self)

C4_ThresholdCertificate ==
    (/\ status = "live" /\ op = "apply_mic" /\ ~is_orthorhombic(self)
     /\ BelowHalfMin(norm(FastPath), widths(self)))
    => /\ VEq(ret, FastPath)
       /\ IsLatticeVector(self.matrix, VSub(ret, V(arg)))
       /\ IsMinimumNorm(self.matrix, norm(ret), arg)

\* The threshold passes for a vector that is not zero.
C4_Witness ==
    /\ status = "live" /\ op = "apply_mic" /\ ~is_orthorhombic(self)
    /\ BelowHalfMin(norm(FastPath), widths(self))
    /\ norm(ret).n > 0

\* The cubic cell of side 10 of test_wrap.
Cubic10 == from_matrix(<< <<10, 0, 0>>, <<0, 10, 0>>, <<0, 0, 10>> >>)

ScaleCalls == { "scale_by", "scale_by_a", "scale_by_b", "scale_by_c" }

\* The step is a scaling call.
ScaleStep == op' \in ScaleCalls /\ nscale' = nscale + 1

\* A factor that is not positive: negative, 0.0 or -0.0.
NonPositive(v) == v.neg \/ v.mag = 0

\* C7: wherever a Lattice exists, inv_matrix is the inverse of matrix, and
\* to_cart(to_frac(p)) = p for every point p.
C7_InverseNeverStale ==
    lattice # <<>> =>
        /\ MMTimes(self.matrix, self.inv_matrix.num)
             = << VTimes(self.inv_matrix.den, Identity[1]),
                  VTimes(self.inv_matrix.den, Identity[2]),
                  VTimes(self.inv_matrix.den, Identity[3]) >>
        /\ \A p \in Points : VEq(to_cart(self, to_frac(self, V(p))), V(p))

\* C8: a scaling call with a factor that is not positive panics and leaves
\* the Lattice as it was before the call.
C8_NonPositiveFactorRejected ==
    [][(ScaleStep /\ NonPositive(arg')) =>
          (status' = "panicked" /\ lattice' = lattice)]_vars

\* The cell of test_lattice_volume.
Volume125 == new(<< <<5, 0, 0>>, <<5, 5, 0>>, <<1, 0, 5>> >>)

\* C9: scale_by(s) with s > 0 multiplies the volume by s^3 and every length
\* by s (its square by s^2) and keeps the three angles, at every call of a
\* run; the volume 125 becomes 8000 after scale_by(4).
C9_UniformScaling ==
    /\ volume(Volume125) = 125
    /\ volume(scale_by(Volume125, Factor(FALSE, 4)).lattice) = 8000
    /\ [][(ScaleStep /\ op' = "scale_by" /\ ~NonPositive(arg')) =>
            LET s == Value(arg')
                before == lattice[1]
                after == lattice'[1]
            IN  /\ status' = "live"
                /\ volume(after) = s * s * s * volume(before)
                /\ \A i \in 1 .. 3 :
                      /\ lengths(after)[i] = s * s * lengths(before)[i]
                      /\ QEq(angles(after)[i], angles(before)[i])]_vars

\* A second scaling call, a scale_by(2), on a cell that is not orthorhombic.
C9_Witness ==
    /\ status = "live" /\ op = "scale_by" /\ nscale = 2
    /\ arg = Factor(FALSE, 2)
    /\ ~is_orthorhombic(self)

ReplicateCall == status = "live" /\ op = "replicate"

\* p + na*a + nb*b + nc*c
PureTranslation(m, p, n) == [num |-> VPlus(p, MTimes(m, n)), den |-> 1]

\* C11: replicate returns |ra|*|rb|*|rc|*|points| points (27 for one point
\* and three ranges -1..=1); the point for the x-th index of ra, the y-th of
\* rb, the z-th of rc and the q-th input point p stands at position
\* (((x-1)|rb| + (y-1))|rc| + (z-1))|points| + q, and is
\* p + to_cart((ra[x], rb[y], rc[z])).
C11_ReplicateCountAndOrder ==
    ReplicateCall =>
        LET points == arg[1]
            ra == arg[2]
            rb == arg[3]
            rc == arg[4]
            np == Len(points)
        IN  /\ Len(ret) = Len(ra) * Len(rb) * Len(rc) * np
            /\ (np = 1 /\ ra = << -1, 0, 1 >> /\ rb = ra /\ rc = ra) => Len(ret) = 27
            /\ \A x \in 1 .. Len(ra), y \in 1 .. Len(rb), z \in 1 .. Len(rc),
                  q \in 1 .. np :
                   VEq(ret[(((x - 1) * Len(rb) + (y - 1)) * Len(rc) + (z - 1)) * np + q],
                       VAdd(V(points[q]), to_cart(self, V(<< ra[x], rb[y], rc[z] >>))))

\* The call of test_supercell on a cell that is not orthorhombic: one point,
\* ranges -1..=1, 27 points returned.
C11_Witness ==
    /\ ReplicateCall
    /\ ~is_orthorhombic(self)
    /\ arg = << << Zeros >>, << -1, 0, 1 >>, << -1, 0, 1 >>, << -1, 0, 1 >> >>
    /\ Len(ret) = 27

\* An apply_mic that went to the exhaustive search, on a right-handed cell
\* with origin zero.
ExhaustiveQuery ==
    /\ status = "live" /\ op = "apply_mic"
    /\ self.origin = Zeros
    /\ RightHanded
    /\ ~is_orthorhombic(self)
    /\ ~BelowHalfMin(norm(FastPath), widths(self))

\* The image (i, j, k) lies outside the box the search enumerates.
OutsideSearchBox(n) ==
    \E i \in 1 .. 3 : Abs(n[i]) > n_min_images(self, norm(FastPath))[i]

\* C12: with origin zero and a right-handed, non-orthorhombic basis, the
\* exhaustive search returns a translate of d by a lattice vector that is no
\* longer than the fast-path vector and no longer than any translate of d,
\* those by images outside its own search box included.
C12_SearchBoxSufficient ==
    ExhaustiveQuery =>
        /\ VEq(ret, apply_mic_brute_force(self, V(arg)))
        /\ IsLatticeVector(self.matrix, VSub(ret, V(arg)))
        /\ QLe(norm(ret), norm(FastPath))
        /\ IsMinimumNorm(self.matrix, norm(ret), arg)

\* The search found a vector strictly shorter than the fast-path one, and
\* the images it is compared with reach outside the search box.
C12_Witness ==
    /\ ExhaustiveQuery
    /\ QLt(norm(ret), norm(FastPath))
    /\ \E n \in Images : OutsideSearchBox(n)

WidthsCall == status = "live" /\ op = "widths"

\* The two lattice vectors that span the faces of axis i.
OtherTwo(m, i) == IF i = 1 THEN << m[2], m[3] >>
                  ELSE IF i = 2 THEN << m[3], m[1] >>
                  ELSE << m[1], m[2] >>

\* The square of the area of the parallelogram spanned by u and v.
AreaSquared(u, v) == Dot(Cross(u, v), Cross(u, v))

\* C13: widths()[i] is the cell volume divided by the area of the
\* parallelogram spanned by the other two lattice vectors, whether or not the
\* two are perpendicular. (A width is vol / sqrt(sq): with the same volume
\* above, the squares below are to be equal.)
C13_WidthIsVolumeOverArea ==
    WidthsCall =>
        \A i \in 1 .. 3 :
            /\ ret[i].vol = volume(self)
            /\ ret[i].sq = AreaSquared(OtherTwo(self.matrix, i)[1],
                                       OtherTwo(self.matrix, i)[2])

\* The radii 1/2, 1 and 2, by their squares.
Radii == { [n |-> 1, d |-> 4], [n |-> 1, d |-> 1], [n |-> 4, d |-> 1] }

\* C14: for every Lattice, left-handed ones included, the three widths are
\* strictly positive and n_min_images(radius) is at least 1 on every axis
\* for every radius > 0.
C14_WidthsPositive ==
    WidthsCall =>
        \A i \in 1 .. 3 :
            /\ ret[i].vol > 0
            /\ \A radius \in Radii : n_min_images(self, radius)[i] >= 1

\* C15: for every Lattice, whatever its origin, the point replicate gives
\* for the image (na, nb, nc) and the input point p is p + na*a + nb*b + nc*c,
\* and with the three ranges holding only 0 the points come back unchanged.
C15_ReplicateIgnoresOrigin ==
    ReplicateCall =>
        LET points == arg[1]
            ra == arg[2]
            rb == arg[3]
            rc == arg[4]
            np == Len(points)
        IN  /\ \A x \in 1 .. Len(ra), y \in 1 .. Len(rb), z \in 1 .. Len(rc),
                  q \in 1 .. np :
                   VEq(ret[(((x - 1) * Len(rb) + (y - 1)) * Len(rc) + (z - 1)) * np + q],
                       PureTranslation(self.matrix, points[q],
                                       << ra[x], rb[y], rc[z] >>))
            /\ (ra = << 0 >> /\ rb = << 0 >> /\ rc = << 0 >>) =>
                   /\ Len(ret) = np
                   /\ \A q \in 1 .. np : VEq(ret[q], V(points[q]))

=============================================================================
